---- MODULE Spec2Model ----
(***************************************************************************)
(* ForceSimulation (client/src/wasm/force-calculations.cpp): a force       *)
(* directed layout kernel.  step() runs three loops over the node array:   *)
(* pairwise charge forces, link springs, then integration with damping.    *)
(*                                                                         *)
(* The C++ `float` fields are modelled as exact rationals <<num, den>>     *)
(* (den > 0, lowest terms); + - * / are exact, sqrt is exact on squares of *)
(* rationals and rounded to the nearest 1/16 otherwise.                    *)
(***************************************************************************)
EXTENDS Integers, Sequences, FiniteSets, TLC

VARIABLES nodes, links, distances, strengths, maxDistance, velocityDecay,
          op, arg, outcome, before, calls

vars == <<nodes, links, distances, strengths, maxDistance, velocityDecay,
          op, arg, outcome, before, calls>>

(***************************************************************************)
(* float arithmetic.  The operations are functions, so that their          *)
(* arguments are values when the body is evaluated.                        *)
(***************************************************************************)
Rat == Int \X Int

AbsInt[n \in Int] == IF n < 0 THEN -n ELSE n

GCD[a \in Nat, b \in Nat] == IF b = 0 THEN a ELSE GCD[b, a % b]

\* n/d with d > 0, divided through by g
Reduce[n \in Int, d \in Int, g \in Nat] == <<n \div g, d \div g>>

\* the float n/d, den > 0 and lowest terms
Q[n \in Int, d \in Int] ==
    Reduce[IF d < 0 THEN -n ELSE n, AbsInt[d], GCD[AbsInt[n], AbsInt[d]]]

F(n) == <<n, 1>>
Zero == F(0)

Neg[a \in Rat] == <<-a[1], a[2]>>
\* a + b over the least common denominator, g the gcd of the denominators
AddOver[a \in Rat, b \in Rat, g \in Nat] ==
    Q[a[1] * (b[2] \div g) + b[1] * (a[2] \div g), (a[2] \div g) * b[2]]
Add[a \in Rat, b \in Rat] == AddOver[a, b, GCD[a[2], b[2]]]
Sub[a \in Rat, b \in Rat] == Add[a, Neg[b]]
\* a * b, cancelling across (by g1, g2) before multiplying
MulOver[a \in Rat, b \in Rat, g1 \in Nat, g2 \in Nat] ==
    Q[(a[1] \div g1) * (b[1] \div g2), (a[2] \div g2) * (b[2] \div g1)]
Mul[a \in Rat, b \in Rat] ==
    MulOver[a, b, GCD[AbsInt[a[1]], b[2]], GCD[AbsInt[b[1]], a[2]]]
\* a / b, b # 0 (every division of step() is guarded by distance > 0)
Div[a \in Rat, b \in Rat] == Mul[a, Q[b[2], b[1]]]
Lt(a, b)  == a[1] * b[2] < b[1] * a[2]
Le(a, b)  == a[1] * b[2] <= b[1] * a[2]
Gt(a, b)  == Lt(b, a)

\* base plus the largest digit g \in 0..15 (times unit) whose square stays
\* <= n, roots kept below 2^15.5 so that the squares fit
SqrtDigit[n \in Nat, base \in Nat, unit \in Nat] ==
    base + unit * (CHOOSE g \in 0..15 :
        /\ base + g * unit <= 46340
        /\ (base + g * unit) * (base + g * unit) <= n
        /\ \/ g = 15
           \/ base + (g + 1) * unit > 46340
           \/ (base + (g + 1) * unit) * (base + (g + 1) * unit) > n)

\* floor of the integer square root of n < 2^31, digit by digit in base 16
ISqrt[n \in Nat] ==
    SqrtDigit[n, SqrtDigit[n, SqrtDigit[n, SqrtDigit[n, 0, 4096], 256], 16], 1]

\* whichever of r, r + 1 has its square nearer to m
Nearest[m \in Nat, r \in Nat] ==
    IF m - r * r <= (r + 1) * (r + 1) - m THEN r ELSE r + 1
\* n/16, and 1/16 for n = 0
Sixteenths[n \in Nat] == Q[IF n = 0 THEN 1 ELSE n, 16]
\* 256 * a, numerator and denominator first divided by k
Scaled[a \in Rat, k \in Nat] ==
    ((a[1] \div k) * 256) \div (IF a[2] \div k = 0 THEN 1 ELSE a[2] \div k)
ScaleOf[a \in Rat] == ((IF a[1] > a[2] THEN a[1] ELSE a[2]) \div 4194304) + 1
RoundedSqrt[m \in Nat] == Sixteenths[Nearest[m, ISqrt[m]]]
SqrtFrom[a \in Rat, rn \in Nat, rd \in Nat] ==
    IF rn * rn = a[1] /\ rd * rd = a[2] THEN <<rn, rd>>
    ELSE RoundedSqrt[Scaled[a, ScaleOf[a]]]

\* sqrt(): exact when the argument is the square of a rational; otherwise
\* rounded to the nearest multiple of 1/16, and never to 0
sqrt[a \in Rat] == SqrtFrom[a, ISqrt[a[1]], ISqrt[a[2]]]

(***************************************************************************)
(* struct Vec3, Node, Link                                                 *)
(***************************************************************************)
Vec3(x, y, z) == [x |-> x, y |-> y, z |-> z]
Node(p, v, c) == [position |-> p, velocity |-> v, charge |-> c]
Link(s, t)    == [source |-> s, target |-> t]

Vec == [x : Rat, y : Rat, z : Rat]
ZeroVec == Vec3(Zero, Zero, Zero)
VAdd[a \in Vec, b \in Vec] == Vec3(Add[a.x, b.x], Add[a.y, b.y], Add[a.z, b.z])
VSub[a \in Vec, b \in Vec] == Vec3(Sub[a.x, b.x], Sub[a.y, b.y], Sub[a.z, b.z])
VScale[a \in Vec, k \in Rat] == Vec3(Mul[a.x, k], Mul[a.y, k], Mul[a.z, k])
VNeg[a \in Vec] == Vec3(Neg[a.x], Neg[a.y], Neg[a.z])
Dot[a \in Vec, b \in Vec] == Add[Add[Mul[a.x, b.x], Mul[a.y, b.y]], Mul[a.z, b.z]]

\* sqrt(dx*dx + dy*dy + dz*dz) of the displacement d
Norm[d \in Vec] == sqrt[Dot[d, d]]

\* ((dx / distance) * k, (dy / distance) * k, (dz / distance) * k)
Along[d \in Vec, distance \in Rat, k \in Rat] ==
    Vec3(Mul[Div[d.x, distance], k],
         Mul[Div[d.y, distance], k],
         Mul[Div[d.z, distance], k])

(***************************************************************************)
(* step(), first loop: pairwise charge forces                              *)
(***************************************************************************)
\* lines 68-74: the guard on distance, `repulsion`, and the three products
ChargeForce[d \in Vec, distance \in Rat, charges \in Rat, maxDist \in Rat] ==
    IF Gt(distance, Zero) /\ Lt(distance, maxDist)
    THEN Along[d, distance, Div[charges, Mul[distance, distance]]]
    ELSE ZeroVec

\* lines 64-74 for the displacement d between two nodes
ForceOver[d \in Vec, charges \in Rat, maxDist \in Rat] ==
    ChargeForce[d, Norm[d], charges, maxDist]

\* PairForce with the cutoff moved out by 1/16: a pair exactly at maxDist
\* still feels the force
PairForcePastCutoff(ns, i, j, maxDist) ==
    IF i = j THEN ZeroVec
    ELSE ForceOver[VSub[ns[j].position, ns[i].position],
                   Mul[ns[i].charge, ns[j].charge], Add[maxDist, Q[1, 16]]]

\* PairForce with node i's own charge squared in place of the product
PairForceOwnCharge(ns, i, j, maxDist) ==
    IF i = j THEN ZeroVec
    ELSE ForceOver[VSub[ns[j].position, ns[i].position],
                   Mul[ns[i].charge, ns[i].charge], maxDist]

\* what node j adds to `force` of node i (1-based indices), lines 62-74
PairForce(ns, i, j, maxDist) ==
    IF i = j THEN ZeroVec
    ELSE ForceOver[VSub[ns[j].position, ns[i].position],
                   Mul[ns[i].charge, ns[j].charge], maxDist]

\* the inner loop over j, accumulating into `force`
RECURSIVE ForceOn(_, _, _, _, _)
ForceOn(ns, i, j, maxDist, force) ==
    IF j > Len(ns) THEN force
    ELSE ForceOn(ns, i, j + 1, maxDist, VAdd[force, PairForce(ns, i, j, maxDist)])

\* RepulseNode moving the node as well: position += force inside the loop
RepulseNodeMoving(ns, i, maxDist) ==
    [ns EXCEPT ![i].velocity = VAdd[@, ForceOn(ns, i, 1, maxDist, ZeroVec)],
               ![i].position = VAdd[@, ForceOn(ns, i, 1, maxDist, ZeroVec)]]

\* one iteration of the outer loop: node i's velocity += force, in place
RepulseNode(ns, i, maxDist) ==
    [ns EXCEPT ![i].velocity = VAdd[@, ForceOn(ns, i, 1, maxDist, ZeroVec)]]

\* the outer loop from node i on
RECURSIVE RepulsionFrom(_, _, _)
RepulsionFrom(ns, i, maxDist) ==
    IF i > Len(ns) THEN ns
    ELSE RepulsionFrom(RepulseNode(ns, i, maxDist), i + 1, maxDist)

RepulsionPhase(ns, maxDist) == RepulsionFrom(ns, 1, maxDist)

(***************************************************************************)
(* step(), second loop: link springs.  operator[] is unchecked: an index   *)
(* past the end of nodes, distances or strengths is undefined behaviour.   *)
(* Its outcomes are taken as: the access traps (the call aborts where it   *)
(* stands), or the load yields whatever lies there (ub.pos, ub.val) and    *)
(* the stores to the stray element land outside the node array.            *)
(***************************************************************************)
InRange(ns, idx) == idx >= 0 /\ idx < Len(ns)

\* does iteration k (1-based) of the link loop index out of bounds
LinkFaults(ns, ls, ds, ss, k) ==
    \/ k > Len(ds)
    \/ k > Len(ss)
    \/ ~InRange(ns, ls[k].source)
    \/ ~InRange(ns, ls[k].target)

\* does any iteration of the link loop index out of bounds
Faulty(ns, ls, ds, ss) == \E k \in 1..Len(ls) : LinkFaults(ns, ls, ds, ss, k)

PositionAt(ns, idx, ub) == IF InRange(ns, idx) THEN ns[idx + 1].position ELSE ub.pos
FloatAt(arr, k, ub) == IF k <= Len(arr) THEN arr[k] ELSE ub.val
AddVelocity(ns, idx, f) ==
    IF InRange(ns, idx) THEN [ns EXCEPT ![idx + 1].velocity = VAdd[@, f]] ELSE ns

\* Pull with the force going onto both ends
PullBoth(ns, source, target, f) ==
    AddVelocity(AddVelocity(ns, source, f), target, f)

\* lines 101-105: the force goes onto the source and comes off the target
Pull(ns, source, target, f) ==
    AddVelocity(AddVelocity(ns, source, f), target, VNeg[f])

\* lines 93-106: the guard on distance, `force`, and the two updates
Spring(ns, source, target, d, distance, targetDistance, strength) ==
    IF Gt(distance, Zero)
    THEN Pull(ns, source, target,
              Along[d, distance, Mul[strength, Sub[distance, targetDistance]]])
    ELSE ns

\* lines 89-106 for the displacement d from source to target
SpringOver(ns, source, target, d, targetDistance, strength) ==
    Spring(ns, source, target, d, Norm[d], targetDistance, strength)

\* the body of the loop for link k, lines 83-106
ApplyLink(ns, ls, ds, ss, k, ub) ==
    SpringOver(ns, ls[k].source, ls[k].target,
               VSub[PositionAt(ns, ls[k].target, ub), PositionAt(ns, ls[k].source, ub)],
               FloatAt(ds, k, ub), FloatAt(ss, k, ub))

\* the loop from link k on; trapped: the call aborted at an out-of-bounds load
RECURSIVE LinksFrom(_, _, _, _, _, _)
LinksFrom(ns, ls, ds, ss, k, ub) ==
    IF k > Len(ls) THEN [nodes |-> ns, trapped |-> FALSE]
    ELSE IF ub.trap /\ LinkFaults(ns, ls, ds, ss, k)
         THEN [nodes |-> ns, trapped |-> TRUE]
         ELSE LinksFrom(ApplyLink(ns, ls, ds, ss, k, ub), ls, ds, ss, k + 1, ub)

LinkPhase(ns, ls, ds, ss, ub) == LinksFrom(ns, ls, ds, ss, 1, ub)

(***************************************************************************)
(* step(), third loop: integration, then damping                           *)
(***************************************************************************)
\* IntegrateNode with the damping applied before the position update
IntegrateNodeDecayFirst(n, decay) ==
    [n EXCEPT !.position = VAdd[n.position, VScale[n.velocity, decay]],
              !.velocity = VScale[n.velocity, decay]]

\* IntegrateNode damping the velocity and leaving the position where it is
IntegrateNodeStill(n, decay) ==
    [n EXCEPT !.velocity = VScale[n.velocity, decay]]

IntegrateNode(n, decay) ==
    [n EXCEPT !.position = VAdd[n.position, n.velocity],
              !.velocity = VScale[n.velocity, decay]]

Integrate(ns, decay) == [i \in 1..Len(ns) |-> IntegrateNode(ns[i], decay)]

(***************************************************************************)
(* The calls a client makes, and their arguments                           *)
(***************************************************************************)
MaxCalls == 5
\* step() is followed only from node arrays whose coordinates keep numerator
\* and denominator within this magnitude
MaxMagnitude == 32

V(x, y, z) == Vec3(F(x), F(y), F(z))

\* node arrays handed to setNodes: one moving node; like positive charges 1
\* apart; opposite charges 3 apart; like negative charges 3 apart, one moving;
\* uncharged nodes 3 apart; three nodes, two of them coincident and the third
\* at an irrational distance
NodeInputs ==
    { <<Node(V(2, 4, 4), V(1, 0, -1), F(-2))>>,
      <<Node(V(0, 0, 0), V(0, 0, 0), F(1)), Node(V(1, 0, 0), V(0, 0, 0), F(1))>>,
      <<Node(V(0, 0, 0), V(0, 0, 0), F(1)), Node(V(1, 2, 2), V(0, 0, 0), F(-1))>>,
      <<Node(V(1, 2, 2), V(0, 0, 0), F(-1)), Node(V(2, 4, 4), V(1, 0, -1), F(-2))>>,
      <<Node(V(0, 0, 0), V(0, 0, 0), F(0)), Node(V(1, 2, 2), V(0, 0, 0), F(0))>>,
      <<Node(V(1, 0, 0), V(0, 0, 0), F(1)), Node(V(1, 2, 2), V(0, 0, 0), F(-1)),
        Node(V(1, 0, 0), V(0, 0, 0), F(1))>> }

LinkInputs ==
    { <<Link(0, 1)>>, <<Link(0, 0)>>,
      <<Link(0, 1), Link(1, 0)>>, <<Link(0, 1), Link(1, 2)>> }

DistanceInputs == { <<F(3)>>, <<F(3), F(1)>> }

StrengthInputs == { <<F(2)>>, <<F(2), Q[1, 2]>> }

\* constructor arguments (maxDist, velDecay)
MaxDistChoices == { F(3), F(100) }
VelDecayChoices == { Zero, Q[1, 2] }

\* what an out-of-bounds load may yield, and whether it traps instead
UBChoices ==
    { [pos |-> V(0, 0, 0), val |-> Zero, trap |-> TRUE],
      [pos |-> V(0, 0, 0), val |-> Zero, trap |-> FALSE],
      [pos |-> V(0, 3, 0), val |-> F(1), trap |-> FALSE] }
NoUB == [pos |-> ZeroVec, val |-> Zero, trap |-> FALSE]

(***************************************************************************)
(* State.  nodes .. velocityDecay are the fields of ForceSimulation.       *)
(* op, arg: the most recent call and its argument; outcome: how it ended   *)
(* ("ok": returned, "trap": aborted); before: the node array when the most *)
(* recent step() was entered (<<>> if the most recent call was no step);   *)
(* calls: the number of calls made so far.                                 *)
(***************************************************************************)
Init ==
    /\ nodes = <<>>
    /\ links = <<>>
    /\ distances = <<>>
    /\ strengths = <<>>
    /\ maxDistance \in MaxDistChoices
    /\ velocityDecay \in VelDecayChoices
    /\ op = "construct"
    /\ arg = <<>>
    /\ outcome = "ok"
    /\ before = <<>>
    /\ calls = 0

Called(name, a) ==
    /\ calls < MaxCalls
    /\ calls' = calls + 1
    /\ op' = name
    /\ arg' = a

\* setNodes installing the array with every velocity reset to zero
setNodesResetting ==
    \E newNodes \in NodeInputs :
        /\ Called("setNodes", newNodes)
        /\ nodes' = [i \in 1..Len(newNodes) |->
                        [newNodes[i] EXCEPT !.velocity = ZeroVec]]
        /\ outcome' = "ok"
        /\ before' = <<>>
        /\ UNCHANGED <<links, distances, strengths, maxDistance, velocityDecay>>

setNodes ==
    \E newNodes \in NodeInputs :
        /\ Called("setNodes", newNodes)
        /\ nodes' = newNodes
        /\ outcome' = "ok"
        /\ before' = <<>>
        /\ UNCHANGED <<links, distances, strengths, maxDistance, velocityDecay>>

setLinks ==
    \E newLinks \in LinkInputs :
        /\ Called("setLinks", newLinks)
        /\ links' = newLinks
        /\ outcome' = "ok"
        /\ before' = <<>>
        /\ UNCHANGED <<nodes, distances, strengths, maxDistance, velocityDecay>>

setDistances ==
    \E newDistances \in DistanceInputs :
        /\ Called("setDistances", newDistances)
        /\ distances' = newDistances
        /\ outcome' = "ok"
        /\ before' = <<>>
        /\ UNCHANGED <<nodes, links, strengths, maxDistance, velocityDecay>>

setStrengths ==
    \E newStrengths \in StrengthInputs :
        /\ Called("setStrengths", newStrengths)
        /\ strengths' = newStrengths
        /\ outcome' = "ok"
        /\ before' = <<>>
        /\ UNCHANGED <<nodes, links, distances, maxDistance, velocityDecay>>

Small(a) == AbsInt[a[1]] <= MaxMagnitude /\ a[2] <= MaxMagnitude
SmallVec(v) == Small(v.x) /\ Small(v.y) /\ Small(v.z)
Representable(ns) ==
    \A i \in 1..Len(ns) : SmallVec(ns[i].position) /\ SmallVec(ns[i].velocity)

\* how step() ends after the link loop l: aborted there, or integrated
Finish(l) ==
    IF l.trapped THEN [nodes |-> l.nodes, outcome |-> "trap"]
    ELSE [nodes |-> Integrate(l.nodes, velocityDecay), outcome |-> "ok"]

\* the three loops of step() on the node array ns, under the choice ub
StepResult(ns, ub) ==
    Finish(LinkPhase(RepulsionPhase(ns, maxDistance),
                     links, distances, strengths, ub))

step ==
    /\ Called("step", <<>>)
    /\ Representable(nodes)
    /\ \E ub \in (IF Faulty(nodes, links, distances, strengths)
                  THEN UBChoices ELSE {NoUB}) :
           \E result \in {StepResult(nodes, ub)} :
               /\ nodes' = result.nodes
               /\ outcome' = result.outcome
    /\ before' = nodes
    /\ UNCHANGED <<links, distances, strengths, maxDistance, velocityDecay>>

\* getNodes(): a read of the node array
getNodes == nodes

Next == setNodes \/ setLinks \/ setDistances \/ setStrengths \/ step

Spec == Init /\ [][Next]_vars

(***************************************************************************)
(* The properties.  `before` holds the node array the most recent step()   *)
(* was entered with, so a state reached by step() shows both ends of the   *)
(* call.                                                                   *)
(***************************************************************************)
\* step() has just returned, and every index its link loop used was in range
StepDone ==
    /\ op = "step"
    /\ outcome = "ok"
    /\ ~Faulty(before, links, distances, strengths)

\* the node array of the most recent step() after its first loop, and after
\* its second
AfterRepulsion == RepulsionPhase(before, maxDistance)
AfterLinks == LinkPhase(AfterRepulsion, links, distances, strengths, NoUB).nodes

Distance(ns, i, j) == Norm[VSub[ns[j].position, ns[i].position]]
NormSq(v) == Dot[v, v]
Pairs(ns) == {p \in (1..Len(ns)) \X (1..Len(ns)) : p[1] # p[2]}

\* some link names a node index that is not below the node count
BadIndex ==
    \E k \in 1..Len(links) :
        links[k].source >= Len(before) \/ links[k].target >= Len(before)

\* distances or strengths is not as long as links
LengthMismatch == Len(distances) # Len(links) \/ Len(strengths) # Len(links)

\* C1: a step() over a link whose source or target index is not below the
\* node count fails with IndexOutOfRange, and getNodes() afterwards returns
\* the node array as it was before the call.
C1_IndexOutOfRange ==
    (op = "step" /\ BadIndex) => (outcome = "IndexOutOfRange" /\ getNodes = before)

\* C2: a step() with distances or strengths of another length than links
\* fails with InvalidConfiguration, and no node's position or velocity has
\* changed.
C2_InvalidConfiguration ==
    (op = "step" /\ LengthMismatch)
        => (outcome = "InvalidConfiguration" /\ nodes = before)

\* C3: for distinct nodes i, j with 0 < d < maxDistance, the velocity j adds
\* to i in the first loop points away from j when charge_i * charge_j > 0 and
\* toward j when charge_i * charge_j < 0.
C3_LikeChargesRepel ==
    op = "step" =>
        \A p \in Pairs(before) :
            LET i == p[1]
                j == p[2]
                toJ == VSub[before[j].position, before[i].position]
                product == Mul[before[i].charge, before[j].charge]
                push == Dot[PairForce(before, i, j, maxDistance), toJ]
            IN  (Gt(Distance(before, i, j), Zero) /\ Lt(Distance(before, i, j), maxDistance))
                    => /\ Gt(product, Zero) => Lt(push, Zero)
                       /\ Lt(product, Zero) => Gt(push, Zero)

\* a step() of a single node without links
LoneStep == op = "step" /\ Len(before) = 1 /\ links = <<>>

\* C4, as the specification states it: with one node and no links every
\* step() leaves the position unchanged, and for 0 <= velocityDecay < 1 the
\* magnitude of the velocity does not increase.
C4_PositionUnchanged ==
    LoneStep =>
        /\ nodes[1].position = before[1].position
        /\ (Le(Zero, velocityDecay) /\ Lt(velocityDecay, F(1)))
               => Le(NormSq(nodes[1].velocity), NormSq(before[1].velocity))

\* C4, amended: with one node and no links every step() moves the position
\* by the velocity the step was entered with (so the position is unchanged
\* only when that velocity is zero) and multiplies the velocity by
\* velocityDecay; for 0 <= velocityDecay < 1 its squared magnitude is
\* velocityDecay^2 times what it was, never larger and smaller when nonzero.
C4_PositionAdvances ==
    LoneStep =>
        /\ outcome = "ok"
        /\ nodes[1].position = VAdd[before[1].position, before[1].velocity]
        /\ nodes[1].velocity = VScale[before[1].velocity, velocityDecay]
        /\ nodes[1].charge = before[1].charge
        /\ (Le(Zero, velocityDecay) /\ Lt(velocityDecay, F(1)))
               => /\ NormSq(nodes[1].velocity) =
                        Mul[Mul[velocityDecay, velocityDecay], NormSq(before[1].velocity)]
                  /\ Le(NormSq(nodes[1].velocity), NormSq(before[1].velocity))
                  /\ before[1].velocity # ZeroVec
                        => Lt(NormSq(nodes[1].velocity), NormSq(before[1].velocity))

\* a second or later step() of a moving lone node, damped by 1/2
C4_Witness ==
    /\ LoneStep
    /\ velocityDecay = Q[1, 2]
    /\ before[1].velocity # ZeroVec
    /\ before[1].position # V(2, 4, 4)
    /\ nodes[1].position # before[1].position

\* C5: after a step() that returns, every node's position is its old position
\* plus its velocity as the first two loops left it, and its velocity is that
\* same velocity times velocityDecay; with velocityDecay = 0 a lone node of
\* velocity v ends at position + v with velocity zero.
C5_DampingAfterIntegration ==
    /\ StepDone =>
           \A i \in 1..Len(nodes) :
               LET m == AfterLinks[i]
               IN  /\ nodes[i].position.x = Add[m.position.x, m.velocity.x]
                   /\ nodes[i].position.y = Add[m.position.y, m.velocity.y]
                   /\ nodes[i].position.z = Add[m.position.z, m.velocity.z]
                   /\ nodes[i].velocity.x = Mul[m.velocity.x, velocityDecay]
                   /\ nodes[i].velocity.y = Mul[m.velocity.y, velocityDecay]
                   /\ nodes[i].velocity.z = Mul[m.velocity.z, velocityDecay]
    /\ (LoneStep /\ velocityDecay = Zero) =>
           /\ nodes[1].position = VAdd[before[1].position, before[1].velocity]
           /\ nodes[1].velocity = ZeroVec

\* one step() of a moving lone node with velocityDecay = 0
C5_Witness ==
    /\ LoneStep
    /\ outcome = "ok"
    /\ velocityDecay = Zero
    /\ before[1].velocity # ZeroVec
    /\ nodes[1].position # before[1].position
    /\ nodes[1].velocity = ZeroVec

\* the pair (i, j) of ns is skipped by the first loop: coincident, or at or
\* beyond the cutoff
Skipped(ns, i, j) ==
    Distance(ns, i, j) = Zero \/ ~Lt(Distance(ns, i, j), maxDistance)

\* C6: in the first loop a pair of distinct nodes at distance 0, or at a
\* distance >= maxDistance (maxDistance itself included), adds nothing to
\* node i's velocity; a pair with 0 < d < maxDistance and both charges nonzero
\* adds a nonzero velocity.
C6_CutoffAndCoincidence ==
    op = "step" =>
        /\ \A p \in Pairs(before) :
               /\ Skipped(before, p[1], p[2])
                      => PairForce(before, p[1], p[2], maxDistance) = ZeroVec
               /\ (/\ ~Skipped(before, p[1], p[2])
                   /\ before[p[1]].charge # Zero
                   /\ before[p[2]].charge # Zero)
                      => PairForce(before, p[1], p[2], maxDistance) # ZeroVec
        /\ \A i \in 1..Len(before) :
               (\A j \in 1..Len(before) : j # i => Skipped(before, i, j))
                   => AfterRepulsion[i].velocity = before[i].velocity

\* a step() over two charged nodes exactly maxDistance apart
C6_Witness ==
    /\ op = "step"
    /\ \E p \in Pairs(before) :
           /\ Distance(before, p[1], p[2]) = maxDistance
           /\ before[p[1]].charge # Zero
           /\ before[p[2]].charge # Zero
           /\ AfterRepulsion[p[1]].velocity = before[p[1]].velocity

\* link k of the most recent step(): its ends (1-based), their distance, and
\* the vector strength * (d - targetDistance) * (target - source) / d
SourceOf(k) == links[k].source + 1
TargetOf(k) == links[k].target + 1
LinkLength(k) == Distance(before, SourceOf(k), TargetOf(k))
LinkVector(k) ==
    VScale[VSub[before[TargetOf(k)].position, before[SourceOf(k)].position],
           Div[Mul[strengths[k], Sub[LinkLength(k), distances[k]]], LinkLength(k)]]

RECURSIVE TotalVelocity(_, _)
TotalVelocity(ns, i) ==
    IF i > Len(ns) THEN ZeroVec ELSE VAdd[ns[i].velocity, TotalVelocity(ns, i + 1)]

\* what link k alone does to the node array the first loop left
AfterLink(k) == ApplyLink(AfterRepulsion, links, distances, strengths, k, NoUB)

\* C7: a link whose ends are at distance d # 0 adds
\* strength * (d - targetDistance) * (target - source) / d to the source's
\* velocity and takes the same vector off the target's; a link with d = 0
\* changes nothing; the velocity changes of the second loop sum to zero over
\* the nodes; a link at its target distance adds nothing, and with no charge
\* and no initial velocity step() then moves nothing.
C7_LinkForce ==
    StepDone =>
        /\ \A k \in 1..Len(links) :
               IF LinkLength(k) = Zero
               THEN AfterLink(k) = AfterRepulsion
               ELSE /\ AfterLink(k)[SourceOf(k)].velocity =
                          VAdd[AfterRepulsion[SourceOf(k)].velocity, LinkVector(k)]
                    /\ AfterLink(k)[TargetOf(k)].velocity =
                          VSub[AfterRepulsion[TargetOf(k)].velocity, LinkVector(k)]
                    /\ \A i \in 1..Len(before) :
                           /\ AfterLink(k)[i].position = before[i].position
                           /\ i \notin {SourceOf(k), TargetOf(k)}
                                  => AfterLink(k)[i] = AfterRepulsion[i]
                    /\ LinkLength(k) = distances[k] => AfterLink(k) = AfterRepulsion
        /\ TotalVelocity(AfterLinks, 1) = TotalVelocity(AfterRepulsion, 1)
        /\ (/\ \A k \in 1..Len(links) : LinkLength(k) \in {Zero, distances[k]}
            /\ \A i \in 1..Len(before) :
                   before[i].charge = Zero /\ before[i].velocity = ZeroVec)
               => nodes = before

\* a step() over two links between the same two nodes, one at its target
\* distance and one stretched
C7_Witness ==
    /\ StepDone
    /\ \E k \in 1..Len(links) :
           LinkLength(k) = distances[k] /\ LinkLength(k) # Zero
    /\ \E k \in 1..Len(links) :
           /\ LinkLength(k) # Zero
           /\ LinkVector(k) # ZeroVec
           /\ AfterLinks[SourceOf(k)].velocity # AfterRepulsion[SourceOf(k)].velocity

\* the nodes of the symmetric example: charges 1 and 1 at (0,0,0) and (1,0,0)
UnitPair ==
    <<Node(V(0, 0, 0), V(0, 0, 0), F(1)), Node(V(1, 0, 0), V(0, 0, 0), F(1))>>

\* C8: in the first loop what j adds to i's velocity is the exact opposite of
\* what i adds to j's; for charges 1 and 1 at (0,0,0) and (1,0,0) with
\* maxDistance = 100 the two changes lie on the x-axis with magnitude 1 and
\* opposite signs.
C8_EqualAndOpposite ==
    op = "step" =>
        /\ \A p \in Pairs(before) :
               PairForce(before, p[1], p[2], maxDistance) =
                   VNeg[PairForce(before, p[2], p[1], maxDistance)]
        /\ Len(before) = 2 =>
               VSub[AfterRepulsion[1].velocity, before[1].velocity] =
                   VNeg[VSub[AfterRepulsion[2].velocity, before[2].velocity]]
        /\ (before = UnitPair /\ maxDistance = F(100)) =>
               LET d1 == VSub[AfterRepulsion[1].velocity, before[1].velocity]
                   d2 == VSub[AfterRepulsion[2].velocity, before[2].velocity]
               IN  /\ d1.y = Zero /\ d1.z = Zero /\ d2.y = Zero /\ d2.z = Zero
                   /\ AbsInt[d1.x[1]] = 1 /\ d1.x[2] = 1
                   /\ AbsInt[d2.x[1]] = 1 /\ d2.x[2] = 1
                   /\ d1.x = Neg[d2.x]

\* a step() of the symmetric example
C8_Witness ==
    /\ op = "step"
    /\ before = UnitPair
    /\ maxDistance = F(100)
    /\ PairForce(before, 1, 2, maxDistance) # ZeroVec
    /\ AfterRepulsion[1].velocity # before[1].velocity

\* the charge forces on node i summed over j = Len(ns) down to j, all taken
\* from the positions of ns
RECURSIVE ForceBackwards(_, _, _)
ForceBackwards(ns, i, j) ==
    IF j = 0 THEN ZeroVec
    ELSE VAdd[PairForce(ns, i, j, maxDistance), ForceBackwards(ns, i, j - 1)]

\* the first Len(links) entries of an array, last first
Backwards(arr) == [k \in 1..Len(links) |-> arr[Len(links) + 1 - k]]

\* the first loop run over the nodes from the last to the first, every force
\* taken from the positions of ns
RepulsionBackwards(ns) ==
    [i \in 1..Len(ns) |->
        [ns[i] EXCEPT !.velocity = VAdd[@, ForceBackwards(ns, i, Len(ns))]]]

\* C9: the first two loops of a step() that returns write no position; what
\* they add to the velocities is computed from the positions the step was
\* entered with, whatever the order of the nodes and of the links; positions
\* change only in the third loop, by the completed velocities.
C9_PositionsReadOnly ==
    StepDone =>
        /\ \A i \in 1..Len(before) :
               /\ AfterRepulsion[i].position = before[i].position
               /\ AfterLinks[i].position = before[i].position
               /\ AfterRepulsion[i].charge = before[i].charge
               /\ nodes[i].position = VAdd[before[i].position, AfterLinks[i].velocity]
        /\ AfterRepulsion = RepulsionBackwards(before)
        /\ AfterLinks =
               LinkPhase(AfterRepulsion, Backwards(links), Backwards(distances),
                         Backwards(strengths), NoUB).nodes

\* a step() over three nodes and two links sharing a node, both loops of
\* which changed velocities
C9_Witness ==
    /\ StepDone
    /\ Len(before) = 3
    /\ Len(links) = 2
    /\ links[1] # links[2]
    /\ AfterRepulsion # before
    /\ AfterLinks # AfterRepulsion
    /\ \E i \in 1..Len(before) : nodes[i].position # before[i].position

====
